---- MODULE Spec2Model ----
(***************************************************************************)
(* A model of cmd.Forge (src/cmd/cmd.go): the recursive construction of    *)
(* the command tree from the `--help` output of an external tool, and its  *)
(* parsing primitives scanHelpMessage, splitDescription, setArgument,      *)
(* setOptions and setSubcommands.                                          *)
(*                                                                         *)
(* A Go string is a sequence of one-character strings, "" is <<>>.  A help *)
(* message is the sequence of the lines bufio.Scanner yields from it.  A   *)
(* Go map is a function whose DOMAIN is the set of keys present; wherever  *)
(* the code ranges over a map, the model takes every iteration order.      *)
(***************************************************************************)
EXTENDS Integers, Sequences, FiniteSets, TLC

----------------------------------------------------------------------------
(* Bounds of the model. *)

\* Most lines of a help message given to the section scanner on its own.
MaxLines == 4
\* Most words after the chain in a usage line given to setArgument on its own.
MaxWords == 2
\* Most external help invocations of one build.
MaxExec == 4

----------------------------------------------------------------------------
(* Strings: package strings and the regular expressions of cmd.go. *)

Min(S) == CHOOSE x \in S : \A y \in S : x <= y
Max(S) == CHOOSE x \in S : \A y \in S : x >= y

\* The class \s of Go's regexp, which for the characters of the model is
\* also the white space of strings.TrimSpace.
IsSpace(ch) == ch \in {" ", "\t", "\n", "\f", "\r"}

\* The class [A-Z].
IsUpper(ch) ==
    ch \in {"A", "B", "C", "D", "E", "F", "G", "H", "I", "J", "K", "L", "M",
            "N", "O", "P", "Q", "R", "S", "T", "U", "V", "W", "X", "Y", "Z"}

\* The class [a-z].
IsLower(ch) ==
    ch \in {"a", "b", "c", "d", "e", "f", "g", "h", "i", "j", "k", "l", "m",
            "n", "o", "p", "q", "r", "s", "t", "u", "v", "w", "x", "y", "z"}

HasPrefix(s, prefix) ==
    Len(prefix) <= Len(s) /\ SubSeq(s, 1, Len(prefix)) = prefix

HasSuffix(s, suffix) ==
    Len(suffix) <= Len(s) /\ SubSeq(s, Len(s) - Len(suffix) + 1, Len(s)) = suffix

TrimPrefix(s, prefix) ==
    IF HasPrefix(s, prefix) THEN SubSeq(s, Len(prefix) + 1, Len(s)) ELSE s

TrimSuffix(s, suffix) ==
    IF HasSuffix(s, suffix) THEN SubSeq(s, 1, Len(s) - Len(suffix)) ELSE s

TrimSpace(s) ==
    LET keep == {i \in 1..Len(s) : ~IsSpace(s[i])}
    IN  IF keep = {} THEN <<>> ELSE SubSeq(s, Min(keep), Max(keep))

\* strings.Split(s, sep) for a one-character separator: Split("", " ") is
\* the one-element list [""].
RECURSIVE Split(_, _)
Split(s, sep) ==
    LET at == {i \in 1..Len(s) : s[i] = sep}
    IN  IF at = {} THEN <<s>>
        ELSE <<SubSeq(s, 1, Min(at) - 1)>>
                 \o Split(SubSeq(s, Min(at) + 1, Len(s)), sep)

\* strings.Join(elems, " ").
RECURSIVE Join(_)
Join(elems) ==
    IF elems = <<>> THEN <<>>
    ELSE IF Len(elems) = 1 THEN elems[1]
    ELSE elems[1] \o <<" ">> \o Join(Tail(elems))

\* blankPattern = `^\s*$`.
blankPattern(line) == \A i \in 1..Len(line) : IsSpace(line[i])

\* linesMap[key] = append(linesMap[key], v) on a Go map.
MapAppend(m, key, v) ==
    IF key \in DOMAIN m THEN [m EXCEPT ![key] = Append(@, v)]
    ELSE [k \in DOMAIN m \cup {key} |-> IF k = key THEN <<v>> ELSE m[k]]

\* The empty Go map.
EmptyMap == [k \in {} |-> <<>>]

----------------------------------------------------------------------------
(* scanHelpMessage *)

Usage == <<"U", "s", "a", "g", "e", ":">>
Options == <<"O", "p", "t", "i", "o", "n", "s", ":">>
Commands == <<"C", "o", "m", "m", "a", "n", "d", "s", ":">>
AvailableCommands == <<"A", "v", "a", "i", "l", "a", "b", "l", "e", " ", "C", "o", "m", "m", "a", "n", "d", "s", ":">>
ManagementCommands == <<"M", "a", "n", "a", "g", "e", "m", "e", "n", "t", " ", "C", "o", "m", "m", "a", "n", "d", "s", ":">>

\* The markers setArgument, setOptions and setSubcommands scan for.
UsageMarkers == <<Usage>>
OptionsMarkers == <<Options>>
SubcommandsMarkers == <<Commands, AvailableCommands, ManagementCommands>>

\* The first marker, in the order given, the line begins with; <<>> if none.
HitMarker(line, markers) ==
    LET hits == {i \in 1..Len(markers) : HasPrefix(line, markers[i])}
    IN  IF hits = {} THEN <<>> ELSE <<markers[Min(hits)]>>

\* ScanStep with the blank-line case lost: a blank line is skipped.
ScanStepKeepsMarker(st, line, markers) ==
    IF blankPattern(line)
    THEN st
    ELSE LET hit == HitMarker(line, markers)
         IN  IF hit # <<>>
             THEN LET trailer == TrimPrefix(line, hit[1])
                  IN  [currentMarker |-> hit[1],
                       linesMap |->
                           IF TrimSpace(trailer) # <<>>
                           THEN MapAppend(st.linesMap, hit[1], trailer)
                           ELSE st.linesMap]
             ELSE IF st.currentMarker = <<>>
             THEN st
             ELSE [st EXCEPT
                      !.linesMap = MapAppend(@, st.currentMarker, line)]

\* ScanStep starting a new group at every marker line.
ScanStepNewGroup(st, line, markers) ==
    IF blankPattern(line)
    THEN [st EXCEPT !.currentMarker = <<>>]
    ELSE LET hit == HitMarker(line, markers)
         IN  IF hit # <<>>
             THEN LET trailer == TrimPrefix(line, hit[1])
                      rest == [k \in DOMAIN st.linesMap \ {hit[1]} |-> st.linesMap[k]]
                  IN  [currentMarker |-> hit[1],
                       linesMap |->
                           IF TrimSpace(trailer) # <<>>
                           THEN MapAppend(rest, hit[1], trailer)
                           ELSE rest]
             ELSE IF st.currentMarker = <<>>
             THEN st
             ELSE [st EXCEPT
                      !.linesMap = MapAppend(@, st.currentMarker, line)]

\* One iteration of the scanner loop: st is the loop's state, the locals
\* currentMarker and linesMap.
ScanStep(st, line, markers) ==
    IF blankPattern(line)
    THEN [st EXCEPT !.currentMarker = <<>>]
    ELSE LET hit == HitMarker(line, markers)
         IN  IF hit # <<>>
             THEN LET trailer == TrimPrefix(line, hit[1])
                  IN  [currentMarker |-> hit[1],
                       linesMap |->
                           IF TrimSpace(trailer) # <<>>
                           THEN MapAppend(st.linesMap, hit[1], trailer)
                           ELSE st.linesMap]
             ELSE IF st.currentMarker = <<>>
             THEN st
             ELSE [st EXCEPT
                      !.linesMap = MapAppend(@, st.currentMarker, line)]

ScanInit == [currentMarker |-> <<>>, linesMap |-> EmptyMap]

RECURSIVE ScanFrom(_, _, _)
ScanFrom(st, lines, markers) ==
    IF lines = <<>> THEN st
    ELSE ScanFrom(ScanStep(st, Head(lines), markers), Tail(lines), markers)

scanHelpMessage(helpMessage, markers) ==
    ScanFrom(ScanInit, helpMessage, markers).linesMap

----------------------------------------------------------------------------
(* splitDescription *)

\* Every order in which `range` may visit the keys S of a Go map.
RECURSIVE Orders(_)
Orders(S) ==
    IF S = {} THEN {<<>>}
    ELSE UNION {{<<k>> \o rest : rest \in Orders(S \ {k})} : k \in S}

\* descHeadIndices after the loop over the lines: column -> votes, with a
\* key for every byte offset at which some line has an upper-case letter
\* right after a white-space character (tuple[0]+1 of a match of `\s[A-Z]`).
descHeadIndices(lines) ==
    LET hit(line) == {i \in 1..(Len(line) - 1) :
                          IsSpace(line[i]) /\ IsUpper(line[i + 1])}
        keys == UNION {hit(lines[n]) : n \in 1..Len(lines)}
    IN  [k \in keys |-> Cardinality({n \in 1..Len(lines) : k \in hit(lines[n])})]

\* The loop `for k, v := range descHeadIndices` run in the given key order,
\* from descHeadIndex = 0 and votes = 0.
RECURSIVE PickDescHead(_, _, _, _)
PickDescHead(order, indices, descHeadIndex, votes) ==
    IF order = <<>> THEN descHeadIndex
    ELSE IF indices[Head(order)] > votes
         THEN PickDescHead(Tail(order), indices, Head(order), indices[Head(order)])
         ELSE PickDescHead(Tail(order), indices, descHeadIndex, votes)

\* The values descHeadIndex can take for a line group, one per iteration
\* order of the map descHeadIndices.
DescHeadIndexes(lines) ==
    LET indices == descHeadIndices(lines)
    IN  {PickDescHead(order, indices, 0, 0) : order \in Orders(DOMAIN indices)}

\* The choices of one descHeadIndex per key of linesMap.
SplitChoices(linesMap) ==
    {idx \in [DOMAIN linesMap ->
                 UNION {DescHeadIndexes(linesMap[k]) : k \in DOMAIN linesMap}] :
        \A k \in DOMAIN linesMap : idx[k] \in DescHeadIndexes(linesMap[k])}

\* line[:descHeadIndex] panics (slice bounds out of range) on a line
\* shorter than descHeadIndex.
SplitPanics(linesMap, idx) ==
    \E k \in DOMAIN linesMap : \E n \in 1..Len(linesMap[k]) :
        Len(linesMap[k][n]) < idx[k]

\* pairsMap, for the descHeadIndex idx[key] the vote loop left for each key.
splitDescription(linesMap, idx) ==
    [k \in DOMAIN linesMap |->
        [n \in 1..Len(linesMap[k]) |->
            <<SubSeq(linesMap[k][n], 1, idx[k]),
              SubSeq(linesMap[k][n], idx[k] + 1, Len(linesMap[k][n]))>>]]

\* pairs after `for _, v := range pairsMap { pairs = append(pairs, v...) }`
\* visiting the keys in the given order.
RECURSIVE Flatten(_, _)
Flatten(pairsMap, order) ==
    IF order = <<>> THEN <<>>
    ELSE pairsMap[Head(order)] \o Flatten(pairsMap, Tail(order))

----------------------------------------------------------------------------
(* Command, Option and the argument numbers *)

ArgumentNumberDockerConfig == 1
ArgumentNumberDockerContainer == 2
ArgumentNumberDockerImage == 4
ArgumentNumberDockerNetwork == 8
ArgumentNumberDockerNode == 16
ArgumentNumberDockerPlugin == 32
ArgumentNumberDockerSecret == 64
ArgumentNumberDockerService == 128
ArgumentNumberDockerStack == 256
ArgumentNumberDockerVolume == 512
ArgumentNumberFile == 1024

ArgumentNumbers ==
    {ArgumentNumberDockerConfig, ArgumentNumberDockerContainer,
     ArgumentNumberDockerImage, ArgumentNumberDockerNetwork,
     ArgumentNumberDockerNode, ArgumentNumberDockerPlugin,
     ArgumentNumberDockerSecret, ArgumentNumberDockerService,
     ArgumentNumberDockerStack, ArgumentNumberDockerVolume, ArgumentNumberFile}

\* k&number != 0 for a one-bit k.
HasBit(number, k) == (number \div k) % 2 = 1

\* number | k for a one-bit k (k = 0: number).
BitOr(number, k) ==
    IF k = 0 \/ HasBit(number, k) THEN number ELSE number + k

\* &Command{} with Chain, Desc and helpMessage set (Forge, lines 94-97).
NewCommand(chain, desc, msg) ==
    [Chain |-> chain, Desc |-> desc, Arguments |-> 0, Options |-> <<>>,
     Subcommands |-> <<>>, helpMessage |-> msg]

ChainString(c) == Join(c.Chain)

----------------------------------------------------------------------------
(* setArgument *)

\* FindAllString of a pattern `[...]+`: the maximal runs of characters of
\* the class, left to right.
RECURSIVE FindAllString(_, _)
FindAllString(class, s) ==
    LET in == {i \in 1..Len(s) : s[i] \in class}
    IN  IF in = {} THEN <<>>
        ELSE LET from == Min(in)
                 stop == Min({j \in from..Len(s) :
                                 j = Len(s) \/ s[j + 1] \notin class})
             IN  <<SubSeq(s, from, stop)>>
                     \o FindAllString(class, SubSeq(s, stop + 1, Len(s)))

\* [A-Z_] and [a-z_].
uppercasedPattern ==
    {"A", "B", "C", "D", "E", "F", "G", "H", "I", "J", "K", "L", "M",
     "N", "O", "P", "Q", "R", "S", "T", "U", "V", "W", "X", "Y", "Z", "_"}
lowercasedPattern ==
    {"a", "b", "c", "d", "e", "f", "g", "h", "i", "j", "k", "l", "m",
     "n", "o", "p", "q", "r", "s", "t", "u", "v", "w", "x", "y", "z", "_"}

\* UppercasedCase with the TARGET_IMAGE case lost.
UppercasedCaseNoTarget(match) ==
    CASE match = <<"C", "O", "N", "F", "I", "G">> -> ArgumentNumberDockerConfig
      [] match = <<"C", "O", "N", "T", "A", "I", "N", "E", "R">> -> ArgumentNumberDockerContainer
      [] match \in {<<"I", "M", "A", "G", "E">>, <<"S", "O", "U", "R", "C", "E", "_", "I", "M", "A", "G", "E">>} -> ArgumentNumberDockerImage
      [] match = <<"N", "E", "T", "W", "O", "R", "K">> -> ArgumentNumberDockerNetwork
      [] match = <<"N", "O", "D", "E">> -> ArgumentNumberDockerNode
      [] match = <<"P", "L", "U", "G", "I", "N">> -> ArgumentNumberDockerPlugin
      [] match = <<"S", "E", "C", "R", "E", "T">> -> ArgumentNumberDockerSecret
      [] match = <<"S", "E", "R", "V", "I", "C", "E">> -> ArgumentNumberDockerService
      [] match = <<"S", "T", "A", "C", "K">> -> ArgumentNumberDockerStack
      [] match = <<"V", "O", "L", "U", "M", "E">> -> ArgumentNumberDockerVolume
      [] match = <<"K", "E", "Y", "_", "F", "I", "L", "E">> -> ArgumentNumberFile
      [] OTHER -> 0

\* The switch over an upper-case match: the bit it sets, 0 for no case.
UppercasedCase(match) ==
    CASE match = <<"C", "O", "N", "F", "I", "G">> -> ArgumentNumberDockerConfig
      [] match = <<"C", "O", "N", "T", "A", "I", "N", "E", "R">> -> ArgumentNumberDockerContainer
      [] match \in {<<"I", "M", "A", "G", "E">>, <<"S", "O", "U", "R", "C", "E", "_", "I", "M", "A", "G", "E">>, <<"T", "A", "R", "G", "E", "T", "_", "I", "M", "A", "G", "E">>} -> ArgumentNumberDockerImage
      [] match = <<"N", "E", "T", "W", "O", "R", "K">> -> ArgumentNumberDockerNetwork
      [] match = <<"N", "O", "D", "E">> -> ArgumentNumberDockerNode
      [] match = <<"P", "L", "U", "G", "I", "N">> -> ArgumentNumberDockerPlugin
      [] match = <<"S", "E", "C", "R", "E", "T">> -> ArgumentNumberDockerSecret
      [] match = <<"S", "E", "R", "V", "I", "C", "E">> -> ArgumentNumberDockerService
      [] match = <<"S", "T", "A", "C", "K">> -> ArgumentNumberDockerStack
      [] match = <<"V", "O", "L", "U", "M", "E">> -> ArgumentNumberDockerVolume
      [] match = <<"K", "E", "Y", "_", "F", "I", "L", "E">> -> ArgumentNumberFile
      [] OTHER -> 0

\* The switch over a lower-case match.
LowercasedCase(match) ==
    IF match = <<"f", "i", "l", "e">> THEN ArgumentNumberFile ELSE 0

RECURSIVE OrMatches(_, _, _)
OrMatches(number, matches, upper) ==
    IF matches = <<>> THEN number
    ELSE OrMatches(BitOr(number, IF upper THEN UppercasedCase(Head(matches))
                                          ELSE LowercasedCase(Head(matches))),
                   Tail(matches), upper)

\* The loop over the usage lines: the value left in c.Arguments.  A line
\* that does not begin with the chain returns before the assignment.
RECURSIVE ArgumentLoop(_, _, _)
ArgumentLoop(c, lines, number) ==
    IF lines = <<>> THEN number
    ELSE LET line == TrimSpace(Head(lines))
             trimmed == TrimPrefix(line, ChainString(c))
         IN  IF trimmed = line THEN c.Arguments
             ELSE ArgumentLoop(c, Tail(lines),
                      OrMatches(OrMatches(number,
                                          FindAllString(uppercasedPattern, trimmed), TRUE),
                                FindAllString(lowercasedPattern, trimmed), FALSE))

setArgument(c) ==
    LET linesMap == scanHelpMessage(c.helpMessage, UsageMarkers)
        lines == IF DOMAIN linesMap = {} THEN <<>>
                 ELSE linesMap[CHOOSE k \in DOMAIN linesMap : TRUE]
    IN  [c EXCEPT !.Arguments = ArgumentLoop(c, lines, 0)]

----------------------------------------------------------------------------
(* setOptions *)

\* The loop over strings.Split(opt, " "): the last "--" flag is long, the
\* last other "-" flag is short.
RECURSIVE FlagLoop(_, _)
FlagLoop(flags, acc) ==
    IF flags = <<>> THEN acc
    ELSE LET flag == TrimSuffix(Head(flags), <<",">>)
         IN  FlagLoop(Tail(flags),
                 IF HasPrefix(flag, <<"-", "-">>)
                 THEN [acc EXCEPT !.Long = TrimPrefix(flag, <<"-", "-">>)]
                 ELSE IF HasPrefix(flag, <<"-">>)
                 THEN [acc EXCEPT !.Short = TrimPrefix(flag, <<"-">>)]
                 ELSE acc)

\* The error values of fmt.Errorf and of exec.
OptionsError(c) == [op |-> "setOptions", chain |-> ChainString(c)]
SubcommandsError(c) == [op |-> "setSubcommands", chain |-> ChainString(c)]
ExecError(arg) == [op |-> "exec", chain |-> Join(arg)]

\* OptionsLoop without the check of line 208: a continuation line with no
\* Option before it is skipped.
RECURSIVE OptionsLoopSkips(_, _)
OptionsLoopSkips(c, pairs) ==
    IF pairs = <<>> THEN [c |-> c, err |-> <<>>]
    ELSE LET opt == TrimSpace(Head(pairs)[1])
             desc == TrimSpace(Head(pairs)[2])
             flags == FlagLoop(Split(opt, " "), [Long |-> <<>>, Short |-> <<>>])
         IN  IF opt = <<>>
             THEN IF Len(c.Options) = 0
                  THEN OptionsLoopSkips(c, Tail(pairs))
                  ELSE OptionsLoopSkips(
                           [c EXCEPT !.Options[Len(c.Options)].Desc = @ \o <<" ">> \o desc],
                           Tail(pairs))
             ELSE OptionsLoopSkips(
                      [c EXCEPT !.Options = Append(@,
                          [Desc |-> desc, Long |-> flags.Long, Short |-> flags.Short])],
                      Tail(pairs))

\* The loop over the pairs: c and the error returned (<<>> is nil).
RECURSIVE OptionsLoop(_, _)
OptionsLoop(c, pairs) ==
    IF pairs = <<>> THEN [c |-> c, err |-> <<>>]
    ELSE LET opt == TrimSpace(Head(pairs)[1])
             desc == TrimSpace(Head(pairs)[2])
             flags == FlagLoop(Split(opt, " "), [Long |-> <<>>, Short |-> <<>>])
         IN  IF opt = <<>>
             THEN IF Len(c.Options) = 0
                  THEN [c |-> c, err |-> <<OptionsError(c)>>]
                  ELSE OptionsLoop(
                           [c EXCEPT !.Options[Len(c.Options)].Desc = @ \o <<" ">> \o desc],
                           Tail(pairs))
             ELSE OptionsLoop(
                      [c EXCEPT !.Options = Append(@,
                          [Desc |-> desc, Long |-> flags.Long, Short |-> flags.Short])],
                      Tail(pairs))

----------------------------------------------------------------------------
(* The help messages the external tool may print. *)

HelpDocker ==
    << <<"U", "s", "a", "g", "e", ":", " ", " ", "d", "o", "c", "k", "e", "r", " ", "[", "O", "P", "T", "I", "O", "N", "S", "]", " ", "C", "O", "M", "M", "A", "N", "D">>,
       <<>>,
       <<"O", "p", "t", "i", "o", "n", "s", ":">>,
       <<" ", " ", "-", "D", ",", " ", "-", "-", "d", "e", "b", "u", "g", " ", " ", "E", "n", "a", "b", "l", "e", " ", "d", "e", "b", "u", "g">>,
       <<>>,
       <<"M", "a", "n", "a", "g", "e", "m", "e", "n", "t", " ", "C", "o", "m", "m", "a", "n", "d", "s", ":">>,
       <<" ", " ", "n", "e", "t", "w", "o", "r", "k", " ", " ", "M", "a", "n", "a", "g", "e", " ", "n", "e", "t", "w", "o", "r", "k", "s">>,
       <<>>,
       <<"C", "o", "m", "m", "a", "n", "d", "s", ":">>,
       <<" ", " ", "r", "m", " ", " ", " ", " ", " ", " ", " ", "R", "e", "m", "o", "v", "e", " ", "c", "o", "n", "t", "a", "i", "n", "e", "r", "s">> >>

HelpNetwork ==
    << <<"U", "s", "a", "g", "e", ":", " ", " ", "d", "o", "c", "k", "e", "r", " ", "n", "e", "t", "w", "o", "r", "k", " ", "C", "O", "M", "M", "A", "N", "D">>,
       <<>>,
       <<"C", "o", "m", "m", "a", "n", "d", "s", ":">>,
       <<" ", " ", "c", "o", "n", "n", "e", "c", "t", " ", " ", "C", "o", "n", "n", "e", "c", "t", " ", "a", " ", "c", "o", "n", "t", "a", "i", "n", "e", "r", " ", "t", "o", " ", "a", " ", "n", "e", "t", "w", "o", "r", "k">>,
       <<" ", " ", "c", "r", "e", "a", "t", "e", " ", " ", " ", "C", "r", "e", "a", "t", "e", " ", "a", " ", "n", "e", "t", "w", "o", "r", "k">> >>

HelpRm ==
    << <<"U", "s", "a", "g", "e", ":", " ", " ", "d", "o", "c", "k", "e", "r", " ", "r", "m", " ", "C", "O", "N", "T", "A", "I", "N", "E", "R", " ", "[", "C", "O", "N", "T", "A", "I", "N", "E", "R", ".", ".", ".", "]">>,
       <<>>,
       <<"O", "p", "t", "i", "o", "n", "s", ":">>,
       <<"-", "f", ",", " ", "-", "-", "f", "o", "r", "c", "e", " ", " ", " ", " ", "F", "o", "r", "c", "e", " ", "t", "h", "e", " ", "r", "e", "m", "o", "v", "a", "l">> >>

HelpWrapped ==
    << <<"O", "p", "t", "i", "o", "n", "s", ":">>,
       <<"-", "h", ",", " ", "-", "-", "h", "e", "l", "p", " ", " ", " ", " ", "P", "r", "i", "n", "t", " ", "u", "s", "a", "g", "e">>,
       <<" ", " ", "i", "n", "f", "o", "r", "m", "a", "t", "i", "o", "n">> >>

HelpAligned ==
    << <<"O", "p", "t", "i", "o", "n", "s", ":">>,
       <<" ", " ", "-", "h", ",", " ", "-", "-", "h", "e", "l", "p", " ", " ", "P", "r", "i", "n", "t", " ", "u", "s", "a", "g", "e">>,
       <<" ", " ", " ", " ", " ", " ", " ", " ", " ", " ", " ", " ", " ", " ", "i", "n", "f", "o", "r", "m", "a", "t", "i", "o", "n">> >>

HelpTie ==
    << <<"O", "p", "t", "i", "o", "n", "s", ":">>,
       <<" ", " ", "-", "a", " ", " ", "A", "l", "l", " ", "I", "m", "a", "g", "e", "s">> >>

HelpLowercase ==
    << <<"O", "p", "t", "i", "o", "n", "s", ":">>,
       <<" ", " ", "-", "q", " ", " ", "q", "u", "i", "e", "t">> >>

HelpSubWrapped ==
    << <<"C", "o", "m", "m", "a", "n", "d", "s", ":">>,
       <<" ", " ", "r", "m", " ", " ", "R", "e", "m", "o", "v", "e", " ", "o", "n", "e">>,
       <<" ", " ", " ", " ", " ", " ", "o", "r", " ", "m", "o", "r", "e">> >>

HelpSubLowercase ==
    << <<"C", "o", "m", "m", "a", "n", "d", "s", ":">>,
       <<" ", " ", "r", "m", " ", " ", "r", "e", "m", "o", "v", "e">> >>

HelpSubShort ==
    << <<"C", "o", "m", "m", "a", "n", "d", "s", ":">>,
       <<" ", " ", "c", "r", "e", "a", "t", "e", " ", " ", " ", "C", "r", "e", "a", "t", "e", " ", "a", " ", "n", "e", "t", "w", "o", "r", "k">>,
       <<" ", " ", "r", "m">> >>

HelpMessages ==
    {HelpDocker, HelpNetwork, HelpRm, HelpWrapped, HelpAligned, HelpTie,
     HelpLowercase, HelpSubWrapped, HelpSubLowercase, HelpSubShort}

----------------------------------------------------------------------------
(* State *)

VARIABLES
    stack,          \* the active Forge calls, outermost first
    ret,            \* <<>>, or <<[c, err]>>: the values a Forge call has just returned
    nexec,          \* the external help invocations made so far
    panicked,       \* a slice expression went out of range: the process has crashed
    scanText,       \* the section scanner on its own: its helpMessage,
    scanMarkers,    \*   its markers,
    scanPos,        \*   the lines scanned so far,
    scanState,      \*   its locals currentMarker and linesMap,
    origin,         \*   and, per marker, the line numbers its recorded lines came from
    usageCommand,   \* setArgument on its own: its receiver
    usageDone       \*   and whether it has run

vars == <<stack, ret, nexec, panicked, scanText, scanMarkers, scanPos,
          scanState, origin, usageCommand, usageDone>>

forgeVars == <<stack, ret, nexec, panicked>>
scanVars == <<scanText, scanMarkers, scanPos, scanState, origin>>
usageVars == <<usageCommand, usageDone>>


----------------------------------------------------------------------------
(* Forge *)

\* A call Forge(cmd, chain, desc) at its first statement.  c is <<>> (nil)
\* until line 94; pairs is the local of that name of setOptions or of
\* setSubcommands, whichever ran last, and idx the descHeadIndex its call
\* of splitDescription chose for each key.
NewFrame(cmd, chain, desc) ==
    [pc |-> "exec", arg |-> Append(chain, cmd), desc |-> desc, c |-> <<>>,
     pairs |-> <<>>, idx |-> EmptyMap]

Top == stack[Len(stack)]
Pop == SubSeq(stack, 1, Len(stack) - 1)
SetTop(frame) == [stack EXCEPT ![Len(stack)] = frame]

Running == ~panicked /\ stack # <<>>

\* `return` of Forge with the named results c and err.
Return(c, err) ==
    /\ stack' = Pop
    /\ ret' = <<[c |-> c, err |-> err]>>

\* main calls Forge("docker", nil, "").
ForgeInit ==
    /\ stack = <<NewFrame(<<"d", "o", "c", "k", "e", "r">>, <<>>, <<>>)>>
    /\ ret = <<>>
    /\ nexec = 0
    /\ panicked = FALSE

\* exec.Command(...).Output() fails: Forge returns at line 91.
ExecFails ==
    /\ Running /\ Top.pc = "exec" /\ nexec < MaxExec
    /\ nexec' = nexec + 1
    /\ Return(Top.c, <<ExecError(Top.arg)>>)
    /\ UNCHANGED <<panicked, scanVars, usageVars>>

\* The help invocation prints msg: lines 93-98, c allocated and setArgument.
ExecSucceeds ==
    /\ Running /\ Top.pc = "exec" /\ nexec < MaxExec
    /\ nexec' = nexec + 1
    /\ \E msg \in HelpMessages :
           stack' = SetTop([Top EXCEPT
               !.pc = "setOptions",
               !.c = <<setArgument(NewCommand(Top.arg, Top.desc, msg))>>])
    /\ UNCHANGED <<ret, panicked, scanVars, usageVars>>

\* A panic: the process ends where it is.
Panic == panicked' = TRUE /\ UNCHANGED <<stack, ret>>

\* setOptions up to its loop (lines 189-194), or setSubcommands up to its
\* loop (lines 224-229): scan, split, flatten.
SplitSection(markers, next) ==
    LET linesMap == scanHelpMessage(Top.c[1].helpMessage, markers)
    IN  \E idx \in SplitChoices(linesMap) :
            IF SplitPanics(linesMap, idx)
            THEN Panic
            ELSE /\ \E order \in Orders(DOMAIN linesMap) :
                        stack' = SetTop([Top EXCEPT
                            !.pc = next,
                            !.idx = idx,
                            !.pairs = Flatten(splitDescription(linesMap, idx), order)])
                 /\ UNCHANGED <<ret, panicked>>

SetOptionsSplit ==
    /\ Running /\ Top.pc = "setOptions"
    /\ SplitSection(OptionsMarkers, "optionsLoop")
    /\ UNCHANGED <<nexec, scanVars, usageVars>>

\* The loop of setOptions (lines 195-220) and Forge's lines 99-101.
SetOptionsLoop ==
    /\ Running /\ Top.pc = "optionsLoop"
    /\ LET r == OptionsLoop(Top.c[1], Top.pairs)
       IN  IF r.err # <<>>
           THEN Return(<<r.c>>, r.err)
           ELSE /\ stack' = SetTop([Top EXCEPT !.pc = "setSubcommands", !.c = <<r.c>>])
                /\ UNCHANGED ret
    /\ UNCHANGED <<nexec, panicked, scanVars, usageVars>>

SetSubcommandsSplit ==
    /\ Running /\ Top.pc = "setSubcommands"
    /\ SplitSection(SubcommandsMarkers, "subcommandsLoop")
    /\ UNCHANGED <<nexec, scanVars, usageVars>>

\* AppendDesc with `=` for `+=`.
ReplaceDesc(c, desc) ==
    [c EXCEPT !.Subcommands[Len(c.Subcommands)].Desc = desc]

\* c.Subcommands[len(c.Subcommands)-1].Desc += " " + desc (line 237).
AppendDesc(c, desc) ==
    [c EXCEPT !.Subcommands[Len(c.Subcommands)].Desc = @ \o <<" ">> \o desc]

\* The loop of setSubcommands is over: it returns nil and Forge returns c.
SubcommandsDone ==
    /\ Running /\ Top.pc = "subcommandsLoop" /\ Top.pairs = <<>>
    /\ Return(Top.c, <<>>)
    /\ UNCHANGED <<nexec, panicked, scanVars, usageVars>>

\* An iteration on a pair whose name is empty (lines 233-237).
SubcommandsContinuation ==
    /\ Running /\ Top.pc = "subcommandsLoop" /\ Top.pairs # <<>>
    /\ TrimSpace(Head(Top.pairs)[1]) = <<>>
    /\ IF Len(Top.c[1].Subcommands) = 0
       THEN Return(Top.c, <<SubcommandsError(Top.c[1])>>)
       ELSE /\ stack' = SetTop([Top EXCEPT
                   !.c = <<AppendDesc(Top.c[1], TrimSpace(Head(Top.pairs)[2]))>>,
                   !.pairs = Tail(@)])
            /\ UNCHANGED ret
    /\ UNCHANGED <<nexec, panicked, scanVars, usageVars>>

\* An iteration on a pair with a name: the call of Forge at line 239.
SubcommandsForge ==
    /\ Running /\ Top.pc = "subcommandsLoop" /\ Top.pairs # <<>>
    /\ TrimSpace(Head(Top.pairs)[1]) # <<>>
    /\ stack' = Append(SetTop([Top EXCEPT !.pc = "forge"]),
                       NewFrame(TrimSpace(Head(Top.pairs)[1]), Top.c[1].Chain,
                                TrimSpace(Head(Top.pairs)[2])))
    /\ UNCHANGED <<ret, nexec, panicked, scanVars, usageVars>>

\* ForgeResult without the check of line 240: a failed child is left out
\* and the loop goes on.
ForgeResultIgnoresError(c, r) ==
    IF r.err # <<>>
    THEN [c |-> c, err |-> <<>>]
    ELSE [c |-> [c EXCEPT !.Subcommands = Append(@, r.c[1])], err |-> <<>>]

\* What setSubcommands does with the results of the call (lines 240-243):
\* <<>> to go on with the loop, or the error it returns.
ForgeResult(c, r) ==
    IF r.err # <<>>
    THEN [c |-> c, err |-> r.err]
    ELSE [c |-> [c EXCEPT !.Subcommands = Append(@, r.c[1])], err |-> <<>>]

\* The call of line 239 has returned.
SubcommandsForged ==
    /\ Running /\ Top.pc = "forge" /\ ret # <<>>
    /\ LET r == ForgeResult(Top.c[1], ret[1])
       IN  IF r.err # <<>>
           THEN Return(<<r.c>>, r.err)
           ELSE /\ stack' = SetTop([Top EXCEPT !.pc = "subcommandsLoop", !.c = <<r.c>>,
                                               !.pairs = Tail(@)])
                /\ ret' = <<>>
    /\ UNCHANGED <<nexec, panicked, scanVars, usageVars>>

\* The scanner and setArgument on their own are not running.
Init ==
    /\ ForgeInit
    /\ scanText = <<>> /\ scanMarkers = <<>> /\ scanPos = 0
    /\ scanState = ScanInit /\ origin = EmptyMap
    /\ usageCommand = NewCommand(<<>>, <<>>, <<>>) /\ usageDone = FALSE

Next ==
    \/ ExecFails
    \/ ExecSucceeds
    \/ SetOptionsSplit
    \/ SetOptionsLoop
    \/ SetSubcommandsSplit
    \/ SubcommandsDone
    \/ SubcommandsContinuation
    \/ SubcommandsForge
    \/ SubcommandsForged

Spec == Init /\ [][Next]_vars

----------------------------------------------------------------------------
(* scanHelpMessage on its own, one line of the loop at a time *)

\* The lines the scanned help messages are made of.
ScanLines ==
    { <<>>, <<" ", " ">>, <<"O", "p", "t", "i", "o", "n", "s", ":">>, <<"O", "p", "t", "i", "o", "n", "s", ":", " ", " ", "-", "a", " ", " ", "A", "l", "l">>, <<"C", "o", "m", "m", "a", "n", "d", "s", ":">>, <<" ", " ", "-", "f", " ", " ", "F", "o", "r", "c", "e">> }

ScanTexts == UNION {[1..n -> ScanLines] : n \in 0..MaxLines}

ScanSpecInit ==
    /\ stack = <<>> /\ ret = <<>> /\ nexec = 0 /\ panicked = FALSE
    /\ usageCommand = NewCommand(<<>>, <<>>, <<>>) /\ usageDone = FALSE
    /\ scanText \in ScanTexts
    /\ scanMarkers \in {OptionsMarkers, SubcommandsMarkers}
    /\ scanPos = 0
    /\ scanState = ScanInit
    /\ origin = EmptyMap

\* The keys whose line group the step from st to next made longer.
Grown(st, next) ==
    {k \in DOMAIN next.linesMap :
        k \notin DOMAIN st.linesMap \/ Len(next.linesMap[k]) > Len(st.linesMap[k])}

RECURSIVE NoteOrigin(_, _, _)
NoteOrigin(org, keys, n) ==
    IF keys = {} THEN org
    ELSE LET k == CHOOSE x \in keys : TRUE
         IN  NoteOrigin(MapAppend(org, k, n), keys \ {k}, n)

\* One iteration of `for scanner.Scan()`.
ScanLine ==
    /\ scanPos < Len(scanText)
    /\ LET next == ScanStep(scanState, scanText[scanPos + 1], scanMarkers)
       IN  /\ scanState' = next
           /\ origin' = NoteOrigin(origin, Grown(scanState, next), scanPos + 1)
    /\ scanPos' = scanPos + 1
    /\ UNCHANGED <<scanText, scanMarkers, forgeVars, usageVars>>

ScanNext == ScanLine

ScanSpec == ScanSpecInit /\ [][ScanNext]_vars

----------------------------------------------------------------------------
(* setArgument on its own *)

UsageChain == << <<"d", "o", "c", "k", "e", "r">>, <<"r", "m">> >>

\* The words that follow the chain in the usage lines: the keywords of the
\* switch and words that contain one.
UsageWords ==
    { <<"C", "O", "N", "F", "I", "G">>, <<"C", "O", "N", "T", "A", "I", "N", "E", "R">>, <<"I", "M", "A", "G", "E">>, <<"S", "O", "U", "R", "C", "E", "_", "I", "M", "A", "G", "E">>, <<"T", "A", "R", "G", "E", "T", "_", "I", "M", "A", "G", "E">>,
      <<"N", "E", "T", "W", "O", "R", "K">>, <<"N", "O", "D", "E">>, <<"P", "L", "U", "G", "I", "N">>, <<"S", "E", "C", "R", "E", "T">>, <<"S", "E", "R", "V", "I", "C", "E">>, <<"S", "T", "A", "C", "K">>,
      <<"V", "O", "L", "U", "M", "E">>, <<"K", "E", "Y", "_", "F", "I", "L", "E">>, <<"f", "i", "l", "e">>, <<"[", "O", "P", "T", "I", "O", "N", "S", "]">>, <<"C", "O", "N", "T", "A", "I", "N", "E", "R", "S">>,
      <<"[", "I", "M", "A", "G", "E", ".", ".", ".", "]">>, <<"M", "Y", "_", "N", "O", "D", "E">>, <<"p", "r", "o", "f", "i", "l", "e">> }

RECURSIVE WordSeqs(_)
WordSeqs(n) ==
    IF n = 0 THEN {<<>>}
    ELSE WordSeqs(n - 1)
             \cup {Append(ws, w) : ws \in {x \in WordSeqs(n - 1) : Len(x) = n - 1},
                                   w \in UsageWords}

\* A usage section: a first line after the marker, and perhaps a second
\* line, which begins with the chain or with another one.
UsageMessages ==
    {<< <<"U", "s", "a", "g", "e", ":", " ", " ">> \o Join(UsageChain \o ws) >> \o more :
        ws \in WordSeqs(MaxWords),
        more \in {<<>>, << <<" ", " ", " ", " ", " ", " ", " ", " ", "d", "o", "c", "k", "e", "r", " ", "r", "m", " ", "-", "f", " ", "S", "E", "C", "R", "E", "T">> >>,
                  << <<" ", " ", " ", " ", " ", " ", " ", " ", "d", "o", "c", "k", "e", "r", " ", "p", "s", " ", "N", "O", "D", "E">> >>}}

UsageSpecInit ==
    /\ stack = <<>> /\ ret = <<>> /\ nexec = 0 /\ panicked = FALSE
    /\ scanText = <<>> /\ scanMarkers = <<>> /\ scanPos = 0
    /\ scanState = ScanInit /\ origin = EmptyMap
    /\ usageCommand \in {NewCommand(UsageChain, <<>>, msg) : msg \in UsageMessages}
    /\ usageDone = FALSE

SetArgument ==
    /\ ~usageDone
    /\ usageCommand' = setArgument(usageCommand)
    /\ usageDone' = TRUE
    /\ UNCHANGED <<forgeVars, scanVars>>

UsageNext == SetArgument

UsageSpec == UsageSpecInit /\ [][UsageNext]_vars

----------------------------------------------------------------------------
(* The section scanner as a two-state machine *)

\* The line numbers of S in ascending order, mapped through f.
RECURSIVE Ascending(_, _)
Ascending(S, f) ==
    IF S = {} THEN <<>> ELSE <<f[Min(S)]>> \o Ascending(S \ {Min(S)}, f)

MarkerSet == {scanMarkers[n] : n \in DOMAIN scanMarkers}
IsBlankLine(i) == \A n \in 1..Len(scanText[i]) : IsSpace(scanText[i][n])
IsMarkerLine(i) == ~IsBlankLine(i) /\ \E m \in MarkerSet : HasPrefix(scanText[i], m)
MarkerOfLine(i) == CHOOSE m \in MarkerSet : HasPrefix(scanText[i], m)

\* The state of the machine after line i: <<>> is idle, a marker m is
\* in-section(m).  It is decided by the last blank or marker line up to i.
MachineState(i) ==
    LET turns == {j \in 1..i : IsBlankLine(j) \/ IsMarkerLine(j)}
    IN  IF turns = {} \/ IsBlankLine(Max(turns)) THEN <<>>
        ELSE MarkerOfLine(Max(turns))

\* What line i adds to the group of marker m: the text after the marker on
\* a marker line, the line itself on any other line read in-section(m).
AfterMarker(i) == SubSeq(scanText[i], Len(MarkerOfLine(i)) + 1, Len(scanText[i]))
RecordedFor(m, i) ==
    /\ ~IsBlankLine(i)
    /\ MachineState(i) = m
    /\ IsMarkerLine(i) => \E n \in 1..Len(AfterMarker(i)) : ~IsSpace(AfterMarker(i)[n])
RecordedText(i) == IF IsMarkerLine(i) THEN AfterMarker(i) ELSE scanText[i]
GroupOf(m) ==
    Ascending({i \in 1..scanPos : RecordedFor(m, i)},
              [i \in 1..Len(scanText) |-> RecordedText(i)])

\* C7: scanHelpMessage is the machine {idle, in-section(marker)}: after
\* every line read, currentMarker is the marker of the last marker line
\* if no blank line followed it and is empty otherwise, and the group of
\* each marker holds, in order, the text after the marker of its marker
\* lines and the non-blank lines read while the machine was in its section;
\* nothing else is recorded.
C7_ScannerIsTwoStateMachine ==
    /\ scanState.currentMarker = MachineState(scanPos)
    /\ DOMAIN scanState.linesMap = {m \in MarkerSet : GroupOf(m) # <<>>}
    /\ \A m \in DOMAIN scanState.linesMap : scanState.linesMap[m] = GroupOf(m)

\* A scan that has been idle, in a section, idle after a blank line and
\* has discarded a line while idle, with a line recorded.
C7_Witness ==
    /\ scanPos = 4
    /\ scanText = << <<" ", " ", "-", "f", " ", " ", "F", "o", "r", "c", "e">>, <<"O", "p", "t", "i", "o", "n", "s", ":", " ", " ", "-", "a", " ", " ", "A", "l", "l">>, <<" ", " ", "-", "f", " ", " ", "F", "o", "r", "c", "e">>, <<" ", " ">> >>
    /\ scanMarkers = OptionsMarkers
    /\ scanState.currentMarker = <<>>
    /\ scanState.linesMap[Options] = << <<" ", " ", "-", "a", " ", " ", "A", "l", "l">>, <<" ", " ", "-", "f", " ", " ", "F", "o", "r", "c", "e">> >>

\* C8 as stated: no group holds lines from both sides of a blank line.
C8_NoMergeAcrossBlank ==
    \A m \in DOMAIN origin : \A a, b \in DOMAIN origin[m] :
        \A k \in 1..scanPos :
            origin[m][a] < k /\ k < origin[m][b] => ~IsBlankLine(k)

\* C8 as amended: a blank line ends the section (no line is recorded
\* between a blank line and the next marker line), and a marker that
\* appears again after the blank line continues the group it started:
\* the group of a marker holds the lines of all its sections, in the
\* order of the text.
C8_SameMarkerContinuesGroup ==
    /\ DOMAIN origin = DOMAIN scanState.linesMap
    /\ \A m \in DOMAIN origin :
        /\ Len(origin[m]) = Len(scanState.linesMap[m])
        /\ \A a, b \in DOMAIN origin[m] : a < b => origin[m][a] < origin[m][b]
        /\ {origin[m][a] : a \in DOMAIN origin[m]}
               = {i \in 1..scanPos :
                     /\ ~IsBlankLine(i)
                     /\ \E j \in 1..i :
                          /\ IsMarkerLine(j) /\ MarkerOfLine(j) = m
                          /\ \A k \in (j + 1)..i : ~IsBlankLine(k) /\ ~IsMarkerLine(k)
                          /\ j = i => TrimSpace(AfterMarker(j)) # <<>>}

\* The same marker twice with a blank line in between, one group.
C8_Witness ==
    /\ scanText = << <<"O", "p", "t", "i", "o", "n", "s", ":">>, <<" ", " ", "-", "f", " ", " ", "F", "o", "r", "c", "e">>, <<>>, <<"O", "p", "t", "i", "o", "n", "s", ":", " ", " ", "-", "a", " ", " ", "A", "l", "l">> >>
    /\ scanPos = 4
    /\ scanMarkers = OptionsMarkers
    /\ scanState.linesMap[Options] = << <<" ", " ", "-", "f", " ", " ", "F", "o", "r", "c", "e">>, <<" ", " ", "-", "a", " ", " ", "A", "l", "l">> >>
    /\ origin[Options] = <<2, 4>>

----------------------------------------------------------------------------
(* The argument mask *)

\* The keyword tokens of each argument number.
KeywordsOf(k) ==
    CASE k = ArgumentNumberDockerConfig -> { <<"C", "O", "N", "F", "I", "G">> }
      [] k = ArgumentNumberDockerContainer -> { <<"C", "O", "N", "T", "A", "I", "N", "E", "R">> }
      [] k = ArgumentNumberDockerImage -> { <<"I", "M", "A", "G", "E">>, <<"S", "O", "U", "R", "C", "E", "_", "I", "M", "A", "G", "E">>, <<"T", "A", "R", "G", "E", "T", "_", "I", "M", "A", "G", "E">> }
      [] k = ArgumentNumberDockerNetwork -> { <<"N", "E", "T", "W", "O", "R", "K">> }
      [] k = ArgumentNumberDockerNode -> { <<"N", "O", "D", "E">> }
      [] k = ArgumentNumberDockerPlugin -> { <<"P", "L", "U", "G", "I", "N">> }
      [] k = ArgumentNumberDockerSecret -> { <<"S", "E", "C", "R", "E", "T">> }
      [] k = ArgumentNumberDockerService -> { <<"S", "E", "R", "V", "I", "C", "E">> }
      [] k = ArgumentNumberDockerStack -> { <<"S", "T", "A", "C", "K">> }
      [] k = ArgumentNumberDockerVolume -> { <<"V", "O", "L", "U", "M", "E">> }
      [] k = ArgumentNumberFile -> { <<"K", "E", "Y", "_", "F", "I", "L", "E">>, <<"f", "i", "l", "e">> }

\* The usage lines of the command, trimmed, and what follows the chain.
UsageLines(c) ==
    LET linesMap == scanHelpMessage(c.helpMessage, UsageMarkers)
    IN  IF Usage \in DOMAIN linesMap
        THEN [n \in DOMAIN linesMap[Usage] |-> TrimSpace(linesMap[Usage][n])]
        ELSE <<>>
AllBeginWithChain(c) ==
    LET lines == UsageLines(c)
    IN  \A n \in DOMAIN lines : HasPrefix(lines[n], ChainString(c))
Remainders(c) ==
    LET lines == UsageLines(c)
    IN  {SubSeq(lines[n], Len(ChainString(c)) + 1, Len(lines[n])) : n \in DOMAIN lines}

\* kw appears in s at i..j.
OccursAt(kw, s, i, j) ==
    /\ 1 <= i /\ j <= Len(s) /\ j - i + 1 = Len(kw)
    /\ \A n \in 1..Len(kw) : s[i + n - 1] = kw[n]
Appears(kw, s) == \E i \in 1..Len(s) : OccursAt(kw, s, i, i + Len(kw) - 1)

\* kw appears in s as a whole token: with no upper-case letter or
\* underscore next to it (no lower-case letter or underscore, for the
\* lower-case token).
TokenClass(kw) == IF IsLower(kw[1]) THEN lowercasedPattern ELSE uppercasedPattern
AppearsAsToken(kw, s) ==
    \E i \in 1..Len(s) :
        LET j == i + Len(kw) - 1
        IN  /\ OccursAt(kw, s, i, j)
            /\ i > 1 => s[i - 1] \notin TokenClass(kw)
            /\ j < Len(s) => s[j + 1] \notin TokenClass(kw)

\* C6 as stated: a flag is in the mask iff one of its keywords appears in
\* what follows the chain in a usage line.
C6_MaskIffKeywordAppears ==
    (usageDone /\ AllBeginWithChain(usageCommand)) =>
        LET rest == Remainders(usageCommand)
        IN  \A k \in ArgumentNumbers :
                HasBit(usageCommand.Arguments, k)
                    <=> \E kw \in KeywordsOf(k) : \E s \in rest : Appears(kw, s)

\* C6 as amended: when every trimmed usage line begins with the chain, a
\* flag is in the mask iff one of its keywords appears after the chain in
\* a usage line as a whole token, a maximal run of upper-case letters and
\* underscores (of lower-case letters and underscores, for "file").
C6_MaskIffKeywordToken ==
    (usageDone /\ AllBeginWithChain(usageCommand)) =>
        LET rest == Remainders(usageCommand)
        IN  \A k \in ArgumentNumbers :
                HasBit(usageCommand.Arguments, k)
                    <=> \E kw \in KeywordsOf(k) : \E s \in rest : AppearsAsToken(kw, s)

\* Two usage lines that begin with the chain: a keyword inside a longer
\* token sets nothing, the keywords that stand alone set their flags.
C6_Witness ==
    /\ usageDone
    /\ usageCommand.helpMessage =
           << <<"U", "s", "a", "g", "e", ":", " ", " ", "d", "o", "c", "k", "e", "r", " ", "r", "m", " ", "C", "O", "N", "T", "A", "I", "N", "E", "R", "S", " ", "[", "I", "M", "A", "G", "E", ".", ".", ".", "]">>, <<" ", " ", " ", " ", " ", " ", " ", " ", "d", "o", "c", "k", "e", "r", " ", "r", "m", " ", "-", "f", " ", "S", "E", "C", "R", "E", "T">> >>
    /\ usageCommand.Arguments = ArgumentNumberDockerImage + ArgumentNumberDockerSecret

----------------------------------------------------------------------------
(* The results of Forge *)

Frames == {stack[i] : i \in DOMAIN stack}
Last(seq) == seq[Len(seq)]

\* C1 as stated: Forge returns a Command and no error, or an error and no
\* Command, never both.
C1_CommandXorError ==
    ret # <<>> =>
        \/ ret[1].c # <<>> /\ ret[1].err = <<>>
        \/ ret[1].c = <<>> /\ ret[1].err # <<>>

----------------------------------------------------------------------------
(* The split column *)

\* The lines of the group that have an upper-case letter at byte offset
\* k, right after a white-space character.
VotesFor(lines, k) ==
    Cardinality({n \in DOMAIN lines :
        k < Len(lines[n]) /\ IsSpace(lines[n][k]) /\ IsUpper(lines[n][k + 1])})

\* The lowest of the columns with the most votes, 0 with no candidate.
LowestBest(lines) ==
    LET cols == 1..Max({0} \cup {Len(lines[n]) : n \in DOMAIN lines})
        cand == {k \in cols : VotesFor(lines, k) > 0}
    IN  IF cand = {} THEN 0
        ELSE Min({k \in cand : \A j \in cand : VotesFor(lines, j) <= VotesFor(lines, k)})

\* The markers of the section whose pairs and idx the frame holds.
SectionMarkers(f) ==
    IF f.pc \in {"optionsLoop", "setSubcommands"} THEN OptionsMarkers
    ELSE SubcommandsMarkers

HasSplit(f) == f.pc \in {"optionsLoop", "setSubcommands", "subcommandsLoop", "forge"}

\* C2 as stated: the split column of every line group is the lowest of the
\* columns with the most votes, and 0 with no candidate.
C2_LowestBestColumn ==
    \A f \in Frames :
        HasSplit(f) =>
            LET linesMap == scanHelpMessage(f.c[1].helpMessage, SectionMarkers(f))
            IN  \A k \in DOMAIN f.idx : f.idx[k] = LowestBest(linesMap[k])

----------------------------------------------------------------------------
(* The order of the entries *)

\* The recorded lines of the sections of the given markers, each with its
\* marker, in the order of the help text.
RECURSIVE InTextOrder(_, _, _)
InTextOrder(lines, markers, current) ==
    IF lines = <<>> THEN <<>>
    ELSE LET line == Head(lines)
             hit == HitMarker(line, markers)
         IN  IF blankPattern(line) THEN InTextOrder(Tail(lines), markers, <<>>)
             ELSE IF hit # <<>>
             THEN (IF TrimSpace(TrimPrefix(line, hit[1])) # <<>>
                   THEN << <<hit[1], TrimPrefix(line, hit[1])>> >> ELSE <<>>)
                      \o InTextOrder(Tail(lines), markers, hit[1])
             ELSE (IF current # <<>> THEN << <<current, line>> >> ELSE <<>>)
                      \o InTextOrder(Tail(lines), markers, current)

\* The names of the entries of the frame's section, in the order of the
\* help text: the non-empty name fields.
RECURSIVE NamesOf(_, _)
NamesOf(entries, idx) ==
    IF entries = <<>> THEN <<>>
    ELSE LET name == TrimSpace(SubSeq(Head(entries)[2], 1, idx[Head(entries)[1]]))
         IN  (IF name # <<>> THEN <<name>> ELSE <<>>) \o NamesOf(Tail(entries), idx)

NamesInTextOrder(f) ==
    NamesOf(InTextOrder(f.c[1].helpMessage, SectionMarkers(f), <<>>), f.idx)

\* The name an Option was parsed from: its flags.
FlagsOf(name) == FlagLoop(Split(name, " "), [Long |-> <<>>, Short |-> <<>>])

\* C3 as stated: when setOptions has returned nil the Options, and when
\* the loop of setSubcommands is over the Subcommands, are the entries of
\* the help text in the order of the text.
C3_HelpTextOrder ==
    \A f \in Frames :
        /\ f.pc = "setSubcommands" =>
               LET names == NamesInTextOrder(f)
               IN  /\ Len(f.c[1].Options) = Len(names)
                   /\ \A n \in DOMAIN names :
                          /\ f.c[1].Options[n].Long = FlagsOf(names[n]).Long
                          /\ f.c[1].Options[n].Short = FlagsOf(names[n]).Short
        /\ (f.pc = "subcommandsLoop" /\ f.pairs = <<>>) =>
               LET names == NamesInTextOrder(f)
               IN  /\ Len(f.c[1].Subcommands) = Len(names)
                   /\ \A n \in DOMAIN names :
                          Last(f.c[1].Subcommands[n].Chain) = names[n]

----------------------------------------------------------------------------
(* Continuation lines *)

\* The descriptions the claim gives the entries of a section: that of an
\* entry's own line, then, each after a single space, the trimmed texts of
\* the continuation lines that follow it.
RECURSIVE JoinedDescs(_, _)
JoinedDescs(pairs, descs) ==
    IF pairs = <<>> THEN descs
    ELSE IF TrimSpace(Head(pairs)[1]) # <<>>
    THEN JoinedDescs(Tail(pairs), Append(descs, TrimSpace(Head(pairs)[2])))
    ELSE JoinedDescs(Tail(pairs),
             [descs EXCEPT ![Len(descs)] = @ \o <<" ">> \o TrimSpace(Head(pairs)[2])])

\* C4 as stated: in an options section that begins with an entry, a
\* continuation line creates no Option and its trimmed text is appended,
\* after a single space, to the description of the Option before it; and
\* on the example, the lines "-h, --help    Print usage" and
\* "  information" yield one Option, described "Print usage information".
C4_WrappedDescriptionJoined ==
    \A f \in Frames :
        /\ ( /\ f.pc = "setSubcommands" /\ f.pairs # <<>>
             /\ TrimSpace(Head(f.pairs)[1]) # <<>> )
            => LET descs == JoinedDescs(f.pairs, <<>>)
               IN  /\ Len(f.c[1].Options) = Len(descs)
                   /\ \A n \in DOMAIN descs : f.c[1].Options[n].Desc = descs[n]
        /\ (f.c # <<>> /\ f.c[1].helpMessage = HelpWrapped)
            => /\ ~(panicked /\ f.pc = "setOptions")
               /\ f.pc \notin {"setOptions", "optionsLoop"} =>
                      f.c[1].Options = << [Desc |-> <<"P", "r", "i", "n", "t", " ", "u", "s", "a", "g", "e", " ", "i", "n", "f", "o", "r", "m", "a", "t", "i", "o", "n">>,
                                           Long |-> <<"h", "e", "l", "p">>, Short |-> <<"h">>] >>

\* C5: when the first pair of the loop of setOptions (of setSubcommands)
\* has an empty name and the node has no Option (no Subcommand), this step
\* makes Forge return an error, with no Option (no Subcommand) appended and
\* no external process invoked.
C5_ContinuationFirstFails ==
    [][ /\ ( /\ Running /\ Top.pc = "optionsLoop" /\ Top.pairs # <<>>
             /\ TrimSpace(Head(Top.pairs)[1]) = <<>>
             /\ Top.c[1].Options = <<>> )
            => /\ stack' = Pop /\ nexec' = nexec /\ ~panicked'
               /\ ret' = <<[c |-> Top.c, err |-> <<OptionsError(Top.c[1])>>]>>
        /\ ( /\ Running /\ Top.pc = "subcommandsLoop" /\ Top.pairs # <<>>
             /\ TrimSpace(Head(Top.pairs)[1]) = <<>>
             /\ Top.c[1].Subcommands = <<>> )
            => /\ stack' = Pop /\ nexec' = nexec /\ ~panicked'
               /\ ret' = <<[c |-> Top.c, err |-> <<SubcommandsError(Top.c[1])>>]>>
      ]_vars

\* A child whose options section begins with a continuation line has made
\* its Forge, and then its parent's, return the error: one more invocation
\* than the parent's, none for the line, and no Option.
C5_Witness ==
    /\ stack = <<>> /\ ret # <<>> /\ nexec = 2
    /\ ret[1].err = <<[op |-> "setOptions", chain |-> <<"d", "o", "c", "k", "e", "r", " ", "r", "m">>]>>
    /\ ret[1].c[1].helpMessage = HelpSubWrapped
    /\ ret[1].c[1].Subcommands = <<>>

----------------------------------------------------------------------------
(* Failure of the help invocation *)

\* C9: once a help invocation has failed, every step is the return of
\* the innermost active Forge, with the same error and with its Command as
\* it was (the failed node not appended); no external process is invoked.
\* The failed Forge itself returns no Command.
C9_InvocationErrorPropagates ==
    [][ /\ (Running /\ Top.pc = "exec" /\ ret' # <<>>)
            => ret' = <<[c |-> <<>>, err |-> <<ExecError(Top.arg)>>]>>
        /\ (ret # <<>> /\ ret[1].err # <<>> /\ ret[1].err[1].op = "exec")
            => /\ nexec' = nexec
               /\ stack' = Pop
               /\ ret' = <<[c |-> Top.c, err |-> ret[1].err]>>
      ]_vars

\* The invocation for the first of two subcommands failed: main has the
\* error, the second was never invoked and the root has no child.
C9_Witness ==
    /\ stack = <<>> /\ ret # <<>> /\ nexec = 2
    /\ ret[1].err = <<[op |-> "exec", chain |-> <<"d", "o", "c", "k", "e", "r", " ", "c", "o", "n", "n", "e", "c", "t">>]>>
    /\ ret[1].c[1].helpMessage = HelpNetwork
    /\ ret[1].c[1].Subcommands = <<>>

----------------------------------------------------------------------------
(* Commands after their Forge has returned *)

\* The frames a step keeps, that hold a Command before and after it.
Kept == {i \in DOMAIN stack : i <= Len(stack') /\ stack[i].c # <<>> /\ stack'[i].c # <<>>}

\* C10 as stated: no step changes a Command whose Forge has returned: the
\* children a node has stay as they are, a returned Command is appended as
\* it was returned, and a node is returned as it was built.
C10_ForgedCommandsImmutable ==
    [][ /\ \A i \in Kept : \A n \in DOMAIN stack[i].c[1].Subcommands :
               /\ n \in DOMAIN stack'[i].c[1].Subcommands
               /\ stack'[i].c[1].Subcommands[n] = stack[i].c[1].Subcommands[n]
        /\ (ret # <<>> /\ ret[1].err = <<>> /\ stack # <<>>)
               => /\ Len(stack) \in Kept
                  /\ Last(stack'[Len(stack)].c[1].Subcommands) = ret[1].c[1]
        /\ (ret' # <<>> /\ stack # <<>> /\ Top.c # <<>> /\ Top.pc \notin {"exec", "optionsLoop"})
               => ret'[1].c = Top.c
      ]_vars

\* C10 as amended: after the Forge call that created a Command has
\* returned, its Chain, Arguments, Options and Subcommands never change,
\* and its Desc changes only by the parent's setSubcommands appending a
\* space and the text of a continuation line to the Desc of the child it
\* forged last.
C10_OnlyDescExtended ==
    [][ /\ \A i \in Kept : \A n \in DOMAIN stack[i].c[1].Subcommands :
               /\ n \in DOMAIN stack'[i].c[1].Subcommands
               /\ LET old == stack[i].c[1].Subcommands[n]
                      new == stack'[i].c[1].Subcommands[n]
                  IN  \/ new = old
                      \/ /\ i = Len(stack) /\ n = Len(stack[i].c[1].Subcommands)
                         /\ Top.pc = "subcommandsLoop" /\ Top.pairs # <<>>
                         /\ TrimSpace(Head(Top.pairs)[1]) = <<>>
                         /\ new = [old EXCEPT !.Desc =
                                      old.Desc \o <<" ">> \o TrimSpace(Head(Top.pairs)[2])]
        /\ (ret # <<>> /\ ret[1].err = <<>> /\ stack # <<>>)
               => /\ Len(stack) \in Kept
                  /\ Last(stack'[Len(stack)].c[1].Subcommands) = ret[1].c[1]
        /\ (ret' # <<>> /\ stack # <<>> /\ Top.c # <<>> /\ Top.pc \notin {"exec", "optionsLoop"})
               => ret'[1].c = Top.c
      ]_vars

\* The child rm was forged with the description "Remove one", and the
\* continuation line after its line has extended it.
C10_Witness ==
    \E f \in Frames :
        /\ f.pc = "subcommandsLoop" /\ f.pairs = <<>>
        /\ f.c[1].helpMessage = HelpSubWrapped
        /\ Len(f.c[1].Subcommands) = 1
        /\ f.c[1].Subcommands[1].Desc = <<"R", "e", "m", "o", "v", "e", " ", "o", "n", "e", " ", "o", "r", " ", "m", "o", "r", "e">>
        /\ f.c[1].Subcommands[1].Chain = << <<"d", "o", "c", "k", "e", "r">>, <<"r", "m">> >>

====
